---- MODULE Spec2Model ----
(***************************************************************************)
(* quocca star detection: get_slice, get_calibration, StarDetectionLLH and *)
(* StarDetectionFilter of quocca/detection/detection.py as state machines. *)
(*                                                                         *)
(* Numbers are integers.  Pixel coordinates handed to get_slice are in     *)
(* half pixels (posH = 2 * pos) so that np.round's ties are representable. *)
(* Calibration keys are day numbers, observation times are ticks.          *)
(***************************************************************************)
EXTENDS Integers, Sequences, FiniteSets, TLC

VARIABLES
    cal,        \* a call of get_calibration: its arguments and what it returned
    sl,         \* a call of get_slice: its arguments and what it returned
    pc,         \* where the detector run is
    kind,       \* "llh" (StarDetectionLLH) or "filter" (StarDetectionFilter)
    namesBound, \* whether the names fit_pos and fit_sigma resolve in the module
    args,       \* the constructor's keyword arguments
    self,       \* the detector's attributes
    image,      \* the Image handed to detect: its pixel array's address, its time
    stars,      \* image.stars: the rows id, mag, x, y
    heap,       \* the arrays: address -> pixel values
    loc,        \* detect's locals: img, mag_sort_idx, loop position, results
    ret,        \* the table detect returned
    input       \* the pixel values and stars as they were when detect was called

vars == <<cal, sl, pc, kind, namesBound, args, self, image, stars, heap, loc, ret, input>>
detVars == <<pc, kind, namesBound, args, self, image, stars, heap, loc, ret, input>>

\* ------------------------------------------------------------------ bounds
MaxDay == 2
MaxEntries == 2
MaxVal == 2
TicksPerDay == 2
MaxDim == 4
MaxSize == 1
MaxStars == 2
MaxFit == 1

\* ------------------------------------------------------- small helpers
Min(a, b) == IF a < b THEN a ELSE b
Max(a, b) == IF a > b THEN a ELSE b
Abs(a) == IF a < 0 THEN -a ELSE a

\* np.clip(v, lo, hi): minimum(maximum(v, lo), hi)
Clip(v, lo, hi) == Min(Max(v, lo), hi)

\* np.round(pos).astype(int) of pos = posH / 2: ties go to the even integer
RoundHalfEven(posH) ==
    LET q == posH \div 2
    IN  IF posH % 2 = 0 THEN q
        ELSE IF q % 2 = 0 THEN q ELSE q + 1

\* ---------------------------------------------------------------- get_slice
\* slice(a, b, None) applied to an axis of length >= b: the indices a .. b-1
SliceIndices(s) == s[1] .. (s[2] - 1)

\* variant: the stops computed without the + 1
GetSliceNoPlusOne(posH, size, shape) ==
    LET p == <<RoundHalfEven(posH[1]), RoundHalfEven(posH[2])>>
    IN  << <<Clip(p[2] - size[2], 0, shape[1] - 1),
             Clip(p[2] + size[2], 0, shape[1] - 1)>>,
           <<Clip(p[1] - size[1], 0, shape[2] - 1),
             Clip(p[1] + size[1], 0, shape[2] - 1)>> >>

\* get_slice(pos, size, shape): <<a_min, a_max>>, <<b_min, b_max>>
GetSlice(posH, size, shape) ==
    LET p == <<RoundHalfEven(posH[1]), RoundHalfEven(posH[2])>>
        a_min == Clip(p[2] - size[2], 0, shape[1] - 1)
        a_max == Clip(p[2] + size[2] + 1, 0, shape[1] - 1)
        b_min == Clip(p[1] - size[1], 0, shape[2] - 1)
        b_max == Clip(p[1] + size[1] + 1, 0, shape[2] - 1)
    IN  << <<a_min, a_max>>, <<b_min, b_max>> >>

\* ---------------------------------------------------------- get_calibration
Cameras == {"cta", "iceact"}
Methods == {"llh_star_detection", "filter_star_detection"}

\* astropy Time(c) of a calibration key (a date): the instant the day starts
Time(c) == c * TicksPerDay

\* lines 88-93: the loop over times.items(), entries in stored order;
\* chosen is <<>> for None and <<c>> for a key
RECURSIVE ChooseKey(_, _, _, _)
ChooseKey(entries, i, time, chosen) ==
    IF i > Len(entries) THEN chosen
    ELSE LET c == entries[i][1]
             t == Time(c)
             next == IF time > t
                     THEN IF chosen = <<>> THEN <<c>>
                          ELSE IF time - t < time - Time(chosen[1]) THEN <<c>>
                          ELSE chosen
                     ELSE chosen
         IN  ChooseKey(entries, i + 1, time, next)

\* calibration[chosen_key]
Lookup(entries, c) ==
    (CHOOSE e \in {entries[i] : i \in 1..Len(entries)} : e[1] = c)[2]

\* the value substituted when no calibration is found (lines 98, 102)
Fallback == 1

\* get_calibration(cam_name, meth_name, time): the value returned and whether
\* warnings.warn was called
GetCalibration(config, cam_name, meth_name, time) ==
    IF cam_name \notin DOMAIN config \/ meth_name \notin DOMAIN config[cam_name]
    THEN [value |-> Fallback, warned |-> TRUE]
    ELSE LET calibration == config[cam_name][meth_name]
             chosen_key == ChooseKey(calibration, 1, time, <<>>)
         IN  IF chosen_key = <<>>
             THEN [value |-> Fallback, warned |-> TRUE]
             ELSE [value |-> Lookup(calibration, chosen_key[1]), warned |-> FALSE]

\* ------------------------------------------------ inputs of get_calibration
Days == 0..MaxDay
Values == 1..MaxVal
Ticks == 0..(MaxDay * TicksPerDay + 1)

RECURSIVE EntryLists(_)
EntryLists(n) ==
    IF n = 0 THEN {<<>>}
    ELSE LET shorter == EntryLists(n - 1)
         IN  shorter \cup
             {Append(s, <<c, v>>) :
                s \in {x \in shorter : Len(x) = n - 1}, c \in Days, v \in Values}

DistinctKeys(s) == \A i, j \in 1..Len(s) : i # j => s[i][1] # s[j][1]

Configs ==
    {(cam :> (meth :> es)) :
        cam \in {"cta"}, meth \in Methods,
        es \in {s \in EntryLists(MaxEntries) : DistinctKeys(s)}}

NoRet == [value |-> 0, warned |-> FALSE]

CalIdle == [pc |-> "idle", config |-> <<>>, cam |-> "", meth |-> "", time |-> 0,
            ret |-> NoRet]
SlIdle == [pc |-> "idle", posH |-> <<0, 0>>, size |-> <<0, 0>>, shape |-> <<1, 1>>,
           ret |-> <<<<0, 0>>, <<0, 0>>>>]

DetIdle ==
    /\ pc = "idle" /\ kind = "none" /\ namesBound = FALSE /\ args = <<>> /\ self = <<>>
    /\ image = <<>> /\ stars = <<>> /\ heap = <<>> /\ loc = <<>> /\ ret = <<>>
    /\ input = <<>>

\* ------------------------------------------- specification: get_calibration
InitCal ==
    /\ cal \in [pc : {"call"}, config : Configs, cam : Cameras, meth : Methods,
                time : Ticks, ret : {NoRet}]
    /\ sl = SlIdle
    /\ DetIdle

CallGetCalibration ==
    /\ cal.pc = "call"
    /\ cal' = [cal EXCEPT !.pc = "done",
                          !.ret = GetCalibration(cal.config, cal.cam, cal.meth, cal.time)]
    /\ UNCHANGED <<sl, detVars>>

NextCal == CallGetCalibration

SpecCal == InitCal /\ [][NextCal]_vars

\* ------------------------------------------------- specification: get_slice
PosHs == (-2)..(2 * MaxDim + 2)
Dims == 1..MaxDim
Sizes == 0..MaxSize

InitSlice ==
    /\ sl \in [pc : {"call"}, posH : PosHs \X PosHs, size : Sizes \X Sizes,
               shape : Dims \X Dims, ret : {<<<<0, 0>>, <<0, 0>>>>}]
    /\ cal = CalIdle
    /\ DetIdle

CallGetSlice ==
    /\ sl.pc = "call"
    /\ sl' = [sl EXCEPT !.pc = "done", !.ret = GetSlice(sl.posH, sl.size, sl.shape)]
    /\ UNCHANGED <<cal, detVars>>

NextSlice == CallGetSlice

SpecSlice == InitSlice /\ [][NextSlice]_vars

\* ------------------------------------------------------------ pixel arrays
\* img.shape of the images of the detector runs
Shape == <<4, 3>>
Pixels(shape) == (0..(shape[1] - 1)) \X (0..(shape[2] - 1))

\* the pixels a pair of slices selects: img[sel]
Sel(s) == SliceIndices(s[1]) \X SliceIndices(s[2])

RECURSIVE SetSum(_, _)
SetSum(f, S) ==
    IF S = {} THEN 0
    ELSE LET q == CHOOSE x \in S : TRUE
         IN  f[q] + SetSum(f, S \ {q})

SetMax(S) == CHOOSE v \in S : \A w \in S : w <= v
SetMin(S) == CHOOSE v \in S : \A w \in S : v <= w

\* the pixel at <<i, j>>, the edge pixel repeated beyond the array
At(arr, i, j) == arr[<<Clip(i, 0, Shape[1] - 1), Clip(j, 0, Shape[2] - 1)>>]

\* skimage.filters.gaussian(image, sigma): a new array; sigma 0 copies, any other
\* sigma is rendered as the 3x3 binomial kernel (1 2 1) x (1 2 1) / 16
Gaussian(arr, sigma) ==
    IF sigma = 0 THEN arr
    ELSE [q \in Pixels(Shape) |->
            (  4 * At(arr, q[1], q[2])
             + 2 * (At(arr, q[1] - 1, q[2]) + At(arr, q[1] + 1, q[2])
                    + At(arr, q[1], q[2] - 1) + At(arr, q[1], q[2] + 1))
             + At(arr, q[1] - 1, q[2] - 1) + At(arr, q[1] - 1, q[2] + 1)
             + At(arr, q[1] + 1, q[2] - 1) + At(arr, q[1] + 1, q[2] + 1)) \div 16]

\* scipy.ndimage.gaussian_laplace(image, sigma): a new array; rendered as the
\* 5-point Laplacian of the image (sigma 1) or of the smoothed image (larger)
GaussianLaplace(arr, sigma) ==
    LET g == IF sigma > 1 THEN Gaussian(arr, 1) ELSE arr
    IN  [q \in Pixels(Shape) |->
            At(g, q[1] - 1, q[2]) + At(g, q[1] + 1, q[2])
            + At(g, q[1], q[2] - 1) + At(g, q[1], q[2] + 1) - 4 * At(g, q[1], q[2])]

\* variant: gaussian() handing back its input array when sigma is 0
GaussianAddrAliasesAtZero(in, sigma) == IF sigma = 0 THEN in ELSE in + 1

\* the address of the array gaussian() returns: always a new array
GaussianAddr(in, sigma) == in + 1

\* np.meshgrid(ty, tx): mx[i, j] = j, my[i, j] = i
MX(q) == q[2]
MY(q) == q[1]

\* 4 * exp(-d2 / (2 sigma^2)) to the nearest integer, sigma 1 or 2
Kern(sigma, d2) ==
    IF sigma = 1
    THEN (IF d2 = 0 THEN 4 ELSE IF d2 = 1 THEN 2 ELSE IF d2 <= 4 THEN 1 ELSE 0)
    ELSE (IF d2 <= 1 THEN 4 ELSE IF d2 <= 3 THEN 3 ELSE IF d2 <= 7 THEN 2
          ELSE IF d2 <= 16 THEN 1 ELSE 0)

\* blob_func(x, y, x0, y0, mag, sigma, bkg)
Blob(x, y, x0, y0, mag, sigma, bkg) ==
    (Abs(mag) * Kern(sigma, (x - x0) * (x - x0) + (y - y0) * (y - y0))) \div 4 + Abs(bkg)

\* fit_function(p): p = <<p[0], p[1], p[2], p[3]>> of the code
FitFunction(p, sel, img, sigma) ==
    LET res == [q \in sel |->
                  LET d == Blob(MX(q), MY(q), p[3], p[4], p[1], sigma, p[2]) - img[q]
                  IN  d * d]
    IN  SetSum(res, sel)

\* x0 of minimize: [max - mean, mean, pos[idx, 1], pos[idx, 0]]
Guess(sel, img, star) ==
    LET vals == {img[q] : q \in sel}
        mean == SetSum(img, sel) \div Cardinality(sel)
    IN  <<SetMax(vals) - mean, mean, star.y, star.x>>

\* the parameter vectors the minimiser is rendered to search: the start, and
\* amplitudes, backgrounds and centres on the pixels of the patch
Candidates(sel, x0) ==
    {x0} \cup {<<m, b, MX(q), MY(q)>> : m \in (-2)..2, b \in {-1, 0, 1}, q \in sel}

\* scipy.optimize.minimize(fit_function, x0, method='BFGS').x: a deterministic
\* function of the patch and the start: a minimiser of fit_function
Minimize(sel, img, sigma, x0) ==
    LET scored == {<<FitFunction(p, sel, img, sigma), p>> : p \in Candidates(sel, x0)}
        best == SetMin({c[1] : c \in scored})
    IN  (CHOOSE c \in scored : c[1] = best)[2]

\* variant: the blob subtracted with its fitted background r.x[1]
RemovedWithBackground(img, sel, r, sigma) ==
    [q \in DOMAIN img |->
        IF q \in sel THEN img[q] - Blob(MX(q), MY(q), r[3], r[4], r[1], sigma, r[2])
        ELSE img[q]]

\* img[sel] -= blob_func(mx[sel], my[sel], r.x[2], r.x[3], r.x[0], sigma, 0.0)
Removed(img, sel, r, sigma) ==
    [q \in DOMAIN img |->
        IF q \in sel THEN img[q] - Blob(MX(q), MY(q), r[3], r[4], r[1], sigma, 0)
        ELSE img[q]]

\* 1 / np.exp(-mag) to the nearest integer
InvExpNeg(mag) == IF mag <= 0 THEN 1 ELSE IF mag = 1 THEN 3 ELSE IF mag = 2 THEN 7 ELSE 20

\* np.percentile(values, quantile) for quantile 0 (minimum) and 100 (maximum)
Percentile(vals, quantile) == IF quantile = 100 THEN SetMax(vals) ELSE SetMin(vals)

Perms(n) == {f \in [1..n -> 1..n] : \A i, j \in 1..n : i # j => f[i] # f[j]}

\* np.argsort(image.stars.mag.values): the rows in ascending magnitude, rows of
\* equal magnitude in an order the sort does not fix
ArgSort(st) ==
    {f \in Perms(Len(st)) : \A i, j \in 1..Len(st) : i < j => st[f[i]].mag <= st[f[j]].mag}

\* variant: the blob subtracted whatever the flag says
RemoveAlways(detector) == TRUE

\* line 219: if self.remove_detected_stars
RemoveEnabled(detector) == detector.remove_detected_stars

\* variant: the row taken from the position in the loop
RowOfLoopPosition(order, k) == k

\* the row of the result arrays an iteration writes: idx, the star fitted
RowIndex(order, k) == order[k]

\* cameras.yaml as the detector runs read it
DetConfig ==
    "cta" :> ("llh_star_detection" :> <<<<1, 2>>>> @@ "filter_star_detection" :> <<<<1, 3>>>>)

\* StarDetectionBase.detect: self.calibration
BaseDetect(camera, name, time) == GetCalibration(DetConfig, camera, name, time).value

\* ------------------------------------------------ inputs of the detectors
PointImage(S) == [q \in Pixels(Shape) |-> IF q \in S THEN 8 ELSE 0]
\* the images handed to detect: pixel values and acquisition time
Scenes == {[pixels |-> PointImage({<<1, 1>>}), time |-> 3],
           [pixels |-> PointImage({<<1, 1>>, <<2, 1>>}), time |-> 0],
           [pixels |-> [q \in Pixels(Shape) |-> IF q = <<2, 1>> THEN 5 ELSE 1], time |-> 3]}

StarPool == {[id |-> 3, mag |-> 1, x |-> 1, y |-> 1],
             [id |-> 5, mag |-> 0, x |-> 2, y |-> 1],
             [id |-> 9, mag |-> 1, x |-> Shape[1] - 1, y |-> Shape[2] - 1]}

RECURSIVE StarLists(_)
StarLists(n) ==
    IF n = 0 THEN {<<>>}
    ELSE LET shorter == StarLists(n - 1)
         IN  shorter \cup
             {Append(s, st) : s \in {x \in shorter : Len(x) = n - 1}, st \in StarPool}

DistinctIds(s) == \A i, j \in 1..Len(s) : i # j => s[i].id # s[j].id

LLHArgs ==
    [camera : {"cta"}, sigma : {1, 2}, fit_size : 0..MaxFit, presmoothing : {0, 1},
     remove_detected_stars : BOOLEAN, verbose : BOOLEAN]
FilterArgs ==
    [camera : {"cta"}, sigma : {1, 2}, fit_size : 0..MaxFit, quantile : {0, 100},
     verbose : BOOLEAN]

\* the address of image.image
InputAddr == 1

\* ---------------------------------------------- specification: the detectors
Init ==
    /\ cal = CalIdle /\ sl = SlIdle
    /\ pc = "new"
    /\ kind \in {"llh", "filter"}
    /\ namesBound \in (IF kind = "llh" THEN BOOLEAN ELSE {FALSE})
    /\ args \in (IF kind = "llh" THEN LLHArgs ELSE FilterArgs)
    /\ self = <<>>
    /\ stars \in {s \in StarLists(MaxStars) : DistinctIds(s)}
    /\ \E scene \in Scenes :
          /\ image = [image |-> InputAddr, time |-> scene.time]
          /\ heap = (InputAddr :> scene.pixels)
    /\ loc = <<>> /\ ret = <<>>
    /\ input = [pixels |-> heap[InputAddr], stars |-> stars]

\* StarDetectionLLH.__init__ (lines 140-149): fit_pos and fit_sigma are neither
\* parameters nor names the module defines; unless the module namespace binds
\* them, line 145 raises NameError and no detector exists
ConstructLLH ==
    /\ pc = "new" /\ kind = "llh"
    /\ IF namesBound
       THEN /\ self' = [camera |-> args.camera, sigma |-> args.sigma,
                        size |-> <<args.fit_size, args.fit_size>>,
                        fit_pos |-> "module global", fit_sigma |-> "module global",
                        presmoothing |-> args.presmoothing, verbose |-> args.verbose,
                        remove_detected_stars |-> args.remove_detected_stars]
            /\ pc' = "ready"
       ELSE /\ self' = self
            /\ pc' = "NameError"
    /\ UNCHANGED <<cal, sl, kind, namesBound, args, image, stars, heap, loc, ret, input>>

\* StarDetectionFilter.__init__ (lines 253-259)
ConstructFilter ==
    /\ pc = "new" /\ kind = "filter"
    /\ self' = [camera |-> args.camera, sigma |-> args.sigma,
                size |-> <<args.fit_size, args.fit_size>>,
                quantile |-> args.quantile, verbose |-> args.verbose]
    /\ pc' = "ready"
    /\ UNCHANGED <<cal, sl, kind, namesBound, args, image, stars, heap, loc, ret, input>>

ZeroRowLLH == [id |-> 0, M_fit |-> 0, b_fit |-> 0, x_fit |-> 0, y_fit |-> 0, visibility |-> 0]
ZeroRowFilter == [id |-> 0, M_fit |-> 0, visibility |-> 0]

\* the array stored at addr, the other arrays as they were
Store(h, addr, arr) == [a \in DOMAIN h \cup {addr} |-> IF a = addr THEN arr ELSE h[a]]

\* StarDetectionLLH.detect, lines 183-206: calibration, presmoothing, the zeroed
\* result arrays, mag_sort_idx
LLHDetectBegin ==
    /\ pc = "ready" /\ kind = "llh"
    /\ self' = [calibration |-> BaseDetect(self.camera, "llh_star_detection", image.time)]
                  @@ self
    /\ LET img == GaussianAddr(image.image, self.presmoothing)
       IN  /\ heap' = Store(heap, img, Gaussian(heap[image.image], self.presmoothing))
           /\ \E order \in ArgSort(stars) :
                 loc' = [img |-> img, order |-> order, k |-> 1,
                         results |-> [i \in 1..Len(stars) |-> ZeroRowLLH],
                         writes |-> [i \in 1..Len(stars) |-> 0]]
    /\ pc' = "loop"
    /\ UNCHANGED <<cal, sl, kind, namesBound, args, image, stars, ret, input>>

\* the patch of star idx: get_slice((pos[idx, 1], pos[idx, 0]), self.size, img.shape)
StarSlice(star, size) == GetSlice(<<2 * star.y, 2 * star.x>>, size, Shape)

\* one iteration of the loop of lines 207-228; np.max of an empty patch raises
\* ValueError
LLHFitStar ==
    /\ pc = "loop" /\ kind = "llh"
    /\ loc.k <= Len(stars)
    /\ LET idx == RowIndex(loc.order, loc.k)
           star == stars[loc.order[loc.k]]
           sel == Sel(StarSlice(star, self.size))
           img == heap[loc.img]
       IN  IF sel = {}
           THEN /\ pc' = "ValueError"
                /\ UNCHANGED <<heap, loc>>
           ELSE \E r \in {Minimize(sel, img, self.sigma, Guess(sel, img, star))} :
                LET row == [id |-> star.id,
                            M_fit |-> Abs(r[1]),
                            visibility |-> Abs(r[1]) * InvExpNeg(star.mag) * self.calibration,
                            b_fit |-> Abs(r[2]),
                            y_fit |-> r[3],
                            x_fit |-> r[4]]
                IN  /\ heap' = IF RemoveEnabled(self)
                               THEN Store(heap, loc.img, Removed(img, sel, r, self.sigma))
                               ELSE heap
                    /\ loc' = [loc EXCEPT !.results[idx] = row,
                                          !.writes[idx] = @ + 1,
                                          !.k = @ + 1]
                    /\ pc' = "loop"
    /\ UNCHANGED <<cal, sl, kind, namesBound, args, self, image, stars, ret, input>>

\* lines 229-231 and 301: pd.DataFrame(results, index=results['id'].astype(int))
DataFrame(results) ==
    [index |-> [i \in DOMAIN results |-> results[i].id], rows |-> results]

LLHDetectReturn ==
    /\ pc = "loop" /\ kind = "llh"
    /\ loc.k > Len(stars)
    /\ ret' = DataFrame(loc.results)
    /\ pc' = "done"
    /\ UNCHANGED <<cal, sl, kind, namesBound, args, self, image, stars, heap, loc, input>>

\* StarDetectionFilter.detect, lines 277-292
FilterDetectBegin ==
    /\ pc = "ready" /\ kind = "filter"
    /\ self' = [calibration |-> BaseDetect(self.camera, "filter_star_detection", image.time)]
                  @@ self
    /\ LET img == image.image + 1
       IN  /\ heap' = Store(heap, img, GaussianLaplace(heap[image.image], self.sigma))
           /\ loc' = [img |-> img, order |-> [i \in 1..Len(stars) |-> i], k |-> 1,
                      results |-> [i \in 1..Len(stars) |-> ZeroRowFilter],
                      writes |-> [i \in 1..Len(stars) |-> 0]]
    /\ pc' = "loop"
    /\ UNCHANGED <<cal, sl, kind, namesBound, args, image, stars, ret, input>>

\* one iteration of the loop of lines 293-300; np.percentile of an empty patch
\* raises IndexError
FilterStar ==
    /\ pc = "loop" /\ kind = "filter"
    /\ loc.k <= Len(stars)
    /\ LET idx == loc.k
           star == stars[idx]
           sel == Sel(StarSlice(star, self.size))
           img == heap[loc.img]
       IN  IF sel = {}
           THEN /\ pc' = "IndexError"
                /\ loc' = loc
           ELSE LET M == Percentile({img[q] : q \in sel}, self.quantile)
                    row == [id |-> star.id,
                            M_fit |-> M,
                            visibility |-> M * InvExpNeg(star.mag) * self.calibration]
                IN  /\ loc' = [loc EXCEPT !.results[idx] = row,
                                          !.writes[idx] = @ + 1,
                                          !.k = @ + 1]
                    /\ pc' = "loop"
    /\ UNCHANGED <<cal, sl, kind, namesBound, args, self, image, stars, heap, ret, input>>

FilterDetectReturn ==
    /\ pc = "loop" /\ kind = "filter"
    /\ loc.k > Len(stars)
    /\ ret' = DataFrame(loc.results)
    /\ pc' = "done"
    /\ UNCHANGED <<cal, sl, kind, namesBound, args, self, image, stars, heap, loc, input>>

Next ==
    \/ ConstructLLH
    \/ ConstructFilter
    \/ LLHDetectBegin
    \/ LLHFitStar
    \/ LLHDetectReturn
    \/ FilterDetectBegin
    \/ FilterStar
    \/ FilterDetectReturn

Spec == Init /\ [][Next]_vars

\* --------------------------------------------------------------- claims
CalEntries == cal.config[cal.cam][cal.meth]
CalPresent == cal.cam \in DOMAIN cal.config /\ cal.meth \in DOMAIN cal.config[cal.cam]
\* the entries whose timestamp is not after the observation time
Qualifying == {CalEntries[i] : i \in {j \in 1..Len(CalEntries) : Time(CalEntries[j][1]) <= cal.time}}
LatestQualifying == {e \in Qualifying : \A f \in Qualifying : Time(f[1]) <= Time(e[1])}

\* C1: whenever the camera/method mapping has an entry whose timestamp is not
\* after the observation time, get_calibration returns the value of the entry
\* with the greatest timestamp <= the observation time (an entry exactly at the
\* observation time qualifies), whatever the stored order of the entries.
C1_LatestNotAfter ==
    (cal.pc = "done" /\ CalPresent /\ Qualifying # {}) =>
        /\ ~cal.ret.warned
        /\ cal.ret.value \in {e[2] : e \in LatestQualifying}

\* C2: get_calibration warns and returns the fallback 1.0 exactly when the
\* camera key is absent, the method key is absent, or no entry has a timestamp
\* not after the observation time; otherwise the qualifying entry's value is
\* returned without a warning.
C2_FallbackExactlyWhenMissing ==
    cal.pc = "done" =>
        ((cal.ret.warned /\ cal.ret.value = Fallback)
            <=> (~CalPresent \/ Qualifying = {}))

\* the rounded centre, half window and axis length get_slice pairs on each
\* axis: axis 1 (rows of the array) takes pos[1], size[1], shape[0]
AxisC(k) == RoundHalfEven(sl.posH[3 - k])
AxisD(k) == sl.size[3 - k]
AxisDim(k) == sl.shape[k]
Clamp(v, dim) == Min(Max(v, 0), dim - 1)

\* C3: on each axis the indices get_slice selects are the inclusive range
\* clamp(c-d) .. clamp(c+d), c the rounded centre; so the region is never
\* empty and holds index dim-1 whenever c+d >= dim-1.
C3_InclusiveClampedRange ==
    sl.pc = "done" =>
        \A k \in {1, 2} :
            SliceIndices(sl.ret[k]) =
                Clamp(AxisC(k) - AxisD(k), AxisDim(k)) .. Clamp(AxisC(k) + AxisD(k), AxisDim(k))

Unclipped(k) ==
    /\ AxisC(k) - AxisD(k) >= 0
    /\ AxisC(k) + AxisD(k) + 1 <= AxisDim(k) - 1

\* C4: the bounds lo, hi of each range get_slice returns satisfy
\* 0 <= lo <= hi <= dim-1, and when neither bound was clipped the selected
\* indices are c-d .. c+d, symmetric around the rounded centre.
C4_BoundsOrderedAndSymmetric ==
    sl.pc = "done" =>
        \A k \in {1, 2} :
            /\ 0 <= sl.ret[k][1]
            /\ sl.ret[k][1] <= sl.ret[k][2]
            /\ sl.ret[k][2] <= AxisDim(k) - 1
            /\ Unclipped(k) =>
                 SliceIndices(sl.ret[k]) = (AxisC(k) - AxisD(k)) .. (AxisC(k) + AxisD(k))

\* a call whose window is clipped on neither axis, with a half window of one
\* pixel on the first axis and the other centre coordinate given at a half pixel
C4_Witness ==
    /\ sl.pc = "done"
    /\ Unclipped(1) /\ Unclipped(2)
    /\ sl.size[2] = 1
    /\ sl.posH[1] % 2 = 1
    /\ Cardinality(SliceIndices(sl.ret[1])) = 3

\* ----------------------------------------------------- claims: the detectors
NStars == Len(stars)
InDetect == pc \in {"loop", "done"}
\* the working image as presmoothing left it
Presmoothed == Gaussian(input.pixels, self.presmoothing)
Patch(i) == Sel(StarSlice(input.stars[i], self.size))

\* the presmoothed image minus the fitted blobs (amplitude M_fit, no background)
\* of the first m stars of the processing order, each inside its own patch
RECURSIVE MinusFitted(_)
MinusFitted(m) ==
    IF m = 0 THEN Presmoothed
    ELSE LET prev == MinusFitted(m - 1)
             i == loc.order[m]
             row == loc.results[i]
         IN  [q \in DOMAIN prev |->
                IF q \in Patch(i)
                THEN prev[q] - Blob(MX(q), MY(q), row.y_fit, row.x_fit, row.M_fit,
                                    self.sigma, 0)
                ELSE prev[q]]

\* C5: with remove_detected_stars enabled the stars are processed in ascending
\* catalog magnitude, and when the fit of the k-th star of that order starts
\* (or the loop has ended) the working image is the presmoothed image minus the
\* fitted blobs, background zero, of exactly the k-1 stars before it, each
\* subtracted inside its own patch only; no later star has been fitted.
C5_RemovalLoopInvariant ==
    (kind = "llh" /\ pc = "loop" /\ self.remove_detected_stars) =>
        /\ \A a, b \in 1..NStars :
              a < b => stars[loc.order[a]].mag <= stars[loc.order[b]].mag
        /\ \A m \in 1..NStars :
              loc.writes[loc.order[m]] = (IF m < loc.k THEN 1 ELSE 0)
        /\ heap[loc.img] = MinusFitted(loc.k - 1)

\* the second star's fit is about to start, the first star's blob has changed
\* the working image and the two patches overlap
C5_Witness ==
    /\ kind = "llh" /\ pc = "loop" /\ self.remove_detected_stars
    /\ loc.k = 2 /\ NStars >= 2
    /\ heap[loc.img] # Presmoothed
    /\ Patch(loc.order[1]) \cap Patch(loc.order[2]) # {}
    /\ stars[loc.order[1]].mag < stars[loc.order[2]].mag

\* C6: neither detector modifies its input: the pixel array of the Image passed
\* in and its star collection stay as they were, and the working array is not
\* the input array.
C6_InputUnchanged ==
    /\ heap[image.image] = input.pixels
    /\ stars = input.stars
    /\ InDetect => loc.img # image.image

\* a likelihood run without presmoothing has returned after removing a star
C6_Witness ==
    /\ kind = "llh" /\ pc = "done"
    /\ self.remove_detected_stars /\ self.presmoothing = 0
    /\ heap[loc.img] # input.pixels

\* the row the likelihood detector writes for star i when it fits the
\* presmoothed image
RowOnPresmoothed(i) ==
    LET star == input.stars[i]
    IN  CHOOSE row \in
            {[id |-> star.id, M_fit |-> Abs(r[1]),
              visibility |-> Abs(r[1]) * InvExpNeg(star.mag) * self.calibration,
              b_fit |-> Abs(r[2]), y_fit |-> r[3], x_fit |-> r[4]] :
                r \in {Minimize(Patch(i), Presmoothed, self.sigma,
                                Guess(Patch(i), Presmoothed, star))}} : TRUE

\* C7: with remove_detected_stars disabled the working image is never written
\* after presmoothing, and every star's result row is the row its fit on the
\* presmoothed image gives, in whatever order the stars were processed.
C7_OrderIndependentWithoutRemoval ==
    (kind = "llh" /\ InDetect /\ ~self.remove_detected_stars) =>
        /\ heap[loc.img] = Presmoothed
        /\ pc = "done" => \A i \in 1..NStars : ret.rows[i] = RowOnPresmoothed(i)

\* two stars of equal magnitude with overlapping patches, fitted in the reverse
\* of their input order, the first of them with a non-zero amplitude
C7_Witness ==
    /\ kind = "llh" /\ pc = "done" /\ ~self.remove_detected_stars
    /\ NStars = 2
    /\ loc.order = <<2, 1>>
    /\ stars[1].mag = stars[2].mag
    /\ Patch(1) \cap Patch(2) # {}
    /\ loc.results[2].M_fit > 0

\* C8: every row of a returned table has M_fit >= 0 and visibility >= 0, and
\* b_fit >= 0 for the likelihood detector (the calibration scalar is positive).
C8_NonNegativeResults ==
    pc = "done" =>
        \A i \in DOMAIN ret.rows :
            /\ ret.rows[i].M_fit >= 0
            /\ ret.rows[i].visibility >= 0
            /\ kind = "llh" => ret.rows[i].b_fit >= 0

\* C9: the returned table has exactly one row per input star, indexed by the
\* star's id: row i carries the id of input star i, the visibility derived from
\* its magnitude and the fit made on its patch, and was written exactly once.
C9_OneRowPerStar ==
    pc = "done" =>
        /\ DOMAIN ret.rows = 1..NStars
        /\ DOMAIN ret.index = 1..NStars
        /\ \A i \in 1..NStars :
              /\ ret.index[i] = input.stars[i].id
              /\ ret.rows[i].id = input.stars[i].id
              /\ loc.writes[i] = 1
              /\ ret.rows[i].visibility =
                    ret.rows[i].M_fit * InvExpNeg(input.stars[i].mag) * self.calibration
              /\ kind = "llh" =>
                    \/ <<ret.rows[i].y_fit, ret.rows[i].x_fit>>
                          = <<input.stars[i].y, input.stars[i].x>>
                    \/ <<ret.rows[i].x_fit, ret.rows[i].y_fit>> \in Patch(i)
              /\ kind = "filter" =>
                    ret.rows[i].M_fit =
                        Percentile({GaussianLaplace(input.pixels, self.sigma)[q] : q \in Patch(i)},
                                   self.quantile)

\* a likelihood run over two stars that fitted the second input star first
C9_Witness ==
    /\ pc = "done" /\ kind = "llh"
    /\ NStars = 2
    /\ loc.order = <<2, 1>>
    /\ stars[2].mag < stars[1].mag

\* C10: constructing a StarDetectionLLH completes without raising and leaves a
\* detector whose sigma, size, presmoothing, verbose and remove_detected_stars
\* hold the given values.
C10_ConstructorCompletes ==
    (kind = "llh" /\ pc # "new") =>
        /\ pc # "NameError"
        /\ self.sigma = args.sigma
        /\ self.size = <<args.fit_size, args.fit_size>>
        /\ self.presmoothing = args.presmoothing
        /\ self.verbose = args.verbose
        /\ self.remove_detected_stars = args.remove_detected_stars
====
